---------------------------- MODULE Spec2Model ----------------------------
(***************************************************************************)
(* Model of re_video's static inspection of encoded video chunks           *)
(* (crates/utils/re_video/src/decode/frame_inspection.rs) and of the       *)
(* re_renderer's draw phase manager and mesh batches                       *)
(* (crates/viewer/re_renderer/src/draw_phase_manager.rs, mesh_renderer.rs).*)
(*                                                                         *)
(* Spec is one call of inspect_video_chunk: the codec dispatch, the loop   *)
(* feeding the chunk to the Annex-B reader in windows of at most           *)
(* MAX_CHUNK_SIZE bytes, and the assembly of the result from the final     *)
(* H264InspectionState.  Bytes are the integers 0..255.  SpecFeeder is the  *)
(* same call on chunks of several windows, run to its return; SpecCalls    *)
(* makes call after call, SpecThreads runs two calls side by side,         *)
(* SpecMesh is one call of MeshDrawData::new whose batches are then added  *)
(* to a DrawPhaseManager and drawn, and SpecDraw a DrawPhaseManager to     *)
(* which draw data are added.                                              *)
(***************************************************************************)
EXTENDS Integers, Sequences, FiniteSets, TLC

(***************************************************************************)
(* Bounds of the model.                                                    *)
(***************************************************************************)
\* NAL units of a structured input chunk.
MaxUnits == 3
\* NAL units of an input chunk of more than MAX_CHUNK_SIZE bytes.
MaxPaddedUnits == 2
\* Length of the unstructured (arbitrary byte) input chunks.
MaxGarbage == 4
\* The window boundary of a padded chunk falls 1..MaxOff bytes into its units.
MaxOff == 5
\* Window sizes 1..MaxWin are compared with the single-window feed.
MaxWin == 3
\* Mesh instances passed to MeshDrawData::new.
MaxInstances == 3
\* Draw data added to a DrawPhaseManager.
MaxDrawData == 2
\* Calls of add_drawables and add_drawable made on a DrawPhaseManager.
MaxAdds == 2
\* Windows filled by the zero bytes that lead the chunks of the feeding loop.
MaxWindows == 3

(***************************************************************************)
(* Program constants.                                                      *)
(***************************************************************************)
MAX_CHUNK_SIZE == 256

VideoCodecs == {"H264", "H265", "AV1", "VP8", "VP9"}

(***************************************************************************)
(* Sequence helpers.                                                       *)
(***************************************************************************)
Min(a, b) == IF a <= b THEN a ELSE b

Zeros(n) == [i \in 1..n |-> 0]

DropLast(s, n) == SubSeq(s, 1, Len(s) - n)

RECURSIVE Flatten(_)
Flatten(ss) == IF ss = <<>> THEN <<>> ELSE Head(ss) \o Flatten(Tail(ss))

RECURSIVE SeqsUpTo(_, _)
SeqsUpTo(S, n) ==
    IF n = 0 THEN {<<>>}
    ELSE LET shorter == SeqsUpTo(S, n - 1)
         IN  shorter \cup {Append(s, x) : s \in {t \in shorter : Len(t) = n - 1}, x \in S}

(***************************************************************************)
(* NAL header (h264_reader::nal::NalHeader): the forbidden_zero_bit is the *)
(* top bit of the first byte, nal_unit_type its low five bits.             *)
(***************************************************************************)
HeaderOk(b) == b < 128

UnitTypeId(b) == b % 32

SeqParameterSet == 7
SliceLayerWithoutPartitioningIdr == 5
SliceLayerWithoutPartitioningNonIdr == 1

(***************************************************************************)
(* VideoEncodingDetails and the SPS decode.  The SPS body is abstracted to *)
(* one byte, the profile indication: a body of exactly one known profile   *)
(* byte decodes, an empty body runs out of data, and anything after the    *)
(* recognised fields is RemainingData, as in the repository's test.        *)
(***************************************************************************)
NoDetails == [codec_string |-> "", coded_dimensions |-> <<0, 0>>, bit_depth |-> 0]

DetailsOfProfile(b) ==
    CASE b = 100 -> [codec_string |-> "avc1.64000A", coded_dimensions |-> <<64, 64>>, bit_depth |-> 8]
      [] b = 66  -> [codec_string |-> "avc1.42000A", coded_dimensions |-> <<32, 32>>, bit_depth |-> 8]
      [] OTHER   -> NoDetails

\* SeqParameterSet::from_bits(..).and_then(encoding_details_from_h264_sps)
SpsDecode(rbsp) ==
    IF rbsp = <<>> THEN [ok |-> FALSE, details |-> NoDetails, error |-> "RbspReaderError(ReaderErrorFor)"]
    ELSE IF Len(rbsp) > 1 THEN [ok |-> FALSE, details |-> NoDetails, error |-> "RbspReaderError(RemainingData)"]
    ELSE IF rbsp[1] \in {100, 66} THEN [ok |-> TRUE, details |-> DetailsOfProfile(rbsp[1]), error |-> ""]
    ELSE [ok |-> FALSE, details |-> NoDetails, error |-> "UnsupportedProfile"]

(***************************************************************************)
(* H264InspectionState and its AccumulatedNalHandler.                      *)
(* coding_details_from_sps : Option<Result<VideoEncodingDetails, String>>  *)
(* is the record [tag, details, error] with tag None, SomeOk or SomeErr.   *)
(***************************************************************************)
NoneSps == [tag |-> "None", details |-> NoDetails, error |-> ""]
SomeOk(d) == [tag |-> "SomeOk", details |-> d, error |-> ""]
SomeErr(e) == [tag |-> "SomeErr", details |-> NoDetails, error |-> e]

H264InspectionState_default ==
    [coding_details_from_sps |-> NoneSps, idr_frame_found |-> FALSE, num_frames_detected |-> 0]

(***************************************************************************)
(* Faulty variants of the handler, used to show that the properties below  *)
(* depend on it.  Each differs from nal in the one place named.            *)
(***************************************************************************)
nal_variant(self, bytes, is_complete, fault) ==
    IF ~HeaderOk(bytes[1])
    THEN [self |-> IF fault = "header error is an error"
                   THEN [self EXCEPT !.coding_details_from_sps = SomeErr("NAL header error")]
                   ELSE self,
          interest |-> "Ignore"]
    ELSE LET nal_unit_type == UnitTypeId(bytes[1]) IN
      CASE nal_unit_type = SeqParameterSet ->
             IF ~is_complete /\ fault # "partial sps is decoded"
             THEN [self |-> self, interest |-> "Buffer"]
             ELSE LET r == SpsDecode(Tail(bytes))
                      keep == fault = "error keeps earlier ok" /\ ~r.ok
                                /\ self.coding_details_from_sps.tag = "SomeOk"
                  IN  [self |-> [self EXCEPT !.coding_details_from_sps =
                                   IF keep THEN @
                                   ELSE IF r.ok THEN SomeOk(r.details)
                                   ELSE SomeErr("Failed reading SPS: " \o r.error)],
                       interest |-> "Ignore"]
        [] nal_unit_type = SliceLayerWithoutPartitioningIdr ->
             [self |-> [self EXCEPT !.idr_frame_found =
                                        IF fault = "idr toggles idr found" THEN ~@ ELSE TRUE,
                                    !.num_frames_detected =
                                        CASE fault = "idr is not counted" -> @
                                          [] fault = "idr restarts the count" -> 1
                                          [] OTHER -> @ + 1],
              interest |-> "Ignore"]
        [] nal_unit_type = SliceLayerWithoutPartitioningNonIdr ->
             [self |-> [self EXCEPT !.num_frames_detected = @ + 1,
                                    !.idr_frame_found =
                                        IF fault = "non-idr clears idr found" THEN FALSE ELSE @],
              interest |-> IF fault = "slice is buffered" THEN "Buffer" ELSE "Ignore"]
        [] OTHER -> [self |-> IF fault = "other unit is counted"
                              THEN [self EXCEPT !.num_frames_detected = @ + 1]
                              ELSE self,
                     interest |-> "Ignore"]

\* A unit that is neither an SPS nor a slice is counted as a frame.
nal_OtherUnitCounted(self, bytes, is_complete) ==
    nal_variant(self, bytes, is_complete, "other unit is counted")

\* A non-IDR slice asks for the rest of its unit instead of ignoring it.
nal_SliceBuffered(self, bytes, is_complete) ==
    nal_variant(self, bytes, is_complete, "slice is buffered")

\* An IDR slice flips idr_frame_found instead of setting it.
nal_IdrTogglesIdrFound(self, bytes, is_complete) ==
    nal_variant(self, bytes, is_complete, "idr toggles idr found")

\* A non-IDR slice clears idr_frame_found.
nal_NonIdrClearsIdr(self, bytes, is_complete) ==
    nal_variant(self, bytes, is_complete, "non-idr clears idr found")

\* A failed SPS decode does not replace an earlier successful one.
nal_ErrorKeepsEarlierOk(self, bytes, is_complete) ==
    nal_variant(self, bytes, is_complete, "error keeps earlier ok")

\* An IDR slice sets idr_frame_found without counting a frame.
nal_IdrNotCounted(self, bytes, is_complete) ==
    nal_variant(self, bytes, is_complete, "idr is not counted")

\* The SPS is decoded from whatever part of it the first fragment holds.
nal_PartialSpsDecoded(self, bytes, is_complete) ==
    nal_variant(self, bytes, is_complete, "partial sps is decoded")

\* A header that fails to parse is recorded as a failure.
nal_HeaderErrorIsError(self, bytes, is_complete) ==
    nal_variant(self, bytes, is_complete, "header error is an error")

\* An IDR slice restarts the frame count at 1.
nal_IdrRestartsCount(self, bytes, is_complete) ==
    nal_variant(self, bytes, is_complete, "idr restarts the count")

\* fn nal(&mut self, nal: RefNal) -> NalInterest: the state after the call and
\* the interest returned.  bytes is the unit as accumulated so far (never empty).
nal(self, bytes, is_complete) ==
    IF ~HeaderOk(bytes[1]) THEN [self |-> self, interest |-> "Ignore"]
    ELSE LET nal_unit_type == UnitTypeId(bytes[1]) IN
      CASE nal_unit_type = SeqParameterSet ->
             IF ~is_complete THEN [self |-> self, interest |-> "Buffer"]
             ELSE LET r == SpsDecode(Tail(bytes)) IN
                  [self |-> [self EXCEPT !.coding_details_from_sps =
                               IF r.ok THEN SomeOk(r.details)
                               ELSE SomeErr("Failed reading SPS: " \o r.error)],
                   interest |-> "Ignore"]
        [] nal_unit_type = SliceLayerWithoutPartitioningIdr ->
             [self |-> [self EXCEPT !.idr_frame_found = TRUE,
                                    !.num_frames_detected = @ + 1],
              interest |-> "Ignore"]
        [] nal_unit_type = SliceLayerWithoutPartitioningNonIdr ->
             [self |-> [self EXCEPT !.num_frames_detected = @ + 1],
              interest |-> "Ignore"]
        [] OTHER -> [self |-> self, interest |-> "Ignore"]

(***************************************************************************)
(* h264_reader::push::NalAccumulator: hands the handler the unit as        *)
(* accumulated so far for as long as the handler asks to Buffer, and       *)
(* starts afresh when the unit ends.  units counts the units ended so far  *)
(* and calls records every call of the handler (the unit's number, the     *)
(* bytes and completeness it saw, the handler before and after, and the    *)
(* interest returned): history kept for the properties, read by no code.   *)
(***************************************************************************)
NalAccumulator_new(handler) ==
    [buf |-> <<>>, interest |-> "Buffer", nal_handler |-> handler, units |-> 0, calls |-> <<>>]

nal_fragment(acc, frag, end) ==
    LET called == acc.interest # "Ignore" /\ (acc.buf # <<>> \/ frag # <<>>)
        r == nal(acc.nal_handler, acc.buf \o frag, end)
        a1 == IF ~called THEN acc
              ELSE [acc EXCEPT
                      !.buf = IF r.interest = "Buffer" /\ ~end THEN acc.buf \o frag ELSE acc.buf,
                      !.interest = IF r.interest = "Ignore" THEN "Ignore" ELSE acc.interest,
                      !.nal_handler = r.self,
                      !.calls = Append(@, [unit |-> acc.units + 1,
                                           bytes |-> acc.buf \o frag,
                                           is_complete |-> end,
                                           before |-> acc.nal_handler,
                                           after |-> r.self,
                                           interest |-> r.interest])]
    IN  IF end THEN [a1 EXCEPT !.buf = <<>>, !.interest = "Buffer", !.units = @ + 1] ELSE a1

(***************************************************************************)
(* h264_reader::annexb::AnnexBReader: the start-code state machine.        *)
(* pend holds the bytes of the current unit seen in this push and not yet  *)
(* handed on, the zeros that may still turn out to belong to a start code  *)
(* (the backtrack bytes) included.  pushes is the history of the windows    *)
(* the feeding loop pushed, each the index range of the chunk it was.      *)
(***************************************************************************)
AnnexBReader_accumulate(handler) ==
    [state |-> "Start", pend |-> <<>>, inner |-> NalAccumulator_new(handler),
     pushes |-> <<>>]

ParseStates ==
    {"Start", "StartOneZero", "StartTwoZero", "InUnit", "InUnitOneZero", "InUnitTwoZero"}

Backtrack(state) ==
    CASE state = "InUnitOneZero" -> 1
      [] state = "InUnitTwoZero" -> 2
      [] OTHER -> 0

InUnitState(state) == state \in {"InUnit", "InUnitOneZero", "InUnitTwoZero"}

PushByte(rd, b) ==
    CASE rd.state = "Start" ->
           [rd EXCEPT !.state = IF b = 0 THEN "StartOneZero" ELSE "Start"]
      [] rd.state = "StartOneZero" ->
           [rd EXCEPT !.state = IF b = 0 THEN "StartTwoZero" ELSE "Start"]
      [] rd.state = "StartTwoZero" ->
           IF b = 0 THEN rd
           ELSE IF b = 1 THEN [rd EXCEPT !.state = "InUnit", !.pend = <<>>]
           ELSE [rd EXCEPT !.state = "Start"]
      [] rd.state = "InUnit" ->
           [rd EXCEPT !.state = IF b = 0 THEN "InUnitOneZero" ELSE "InUnit",
                      !.pend = Append(@, b)]
      [] rd.state = "InUnitOneZero" ->
           [rd EXCEPT !.state = IF b = 0 THEN "InUnitTwoZero" ELSE "InUnit",
                      !.pend = Append(@, b)]
      [] rd.state = "InUnitTwoZero" ->
           IF b \in {0, 1}
           THEN [rd EXCEPT !.state = IF b = 0 THEN "StartTwoZero" ELSE "InUnit",
                           !.pend = <<>>,
                           !.inner = nal_fragment(@, DropLast(rd.pend, 2), TRUE)]
           ELSE [rd EXCEPT !.state = "InUnit", !.pend = Append(@, b)]

\* The scan of data[first..last], byte by byte in order.  The range is split in
\* halves, the first half evaluated (by the test of its state) before the second,
\* which keeps the evaluation shallow for a window of MAX_CHUNK_SIZE bytes.
RECURSIVE PushBytes(_, _, _, _)
PushBytes(rd, data, first, last) ==
    IF first > last THEN rd
    ELSE IF first = last THEN PushByte(rd, data[first])
    ELSE LET mid == (first + last) \div 2
             left == PushBytes(rd, data, first, mid)
         IN  IF left.state \in ParseStates THEN PushBytes(left, data, mid + 1, last) ELSE left

\* AnnexBReader::push(&data[first..=last]): scan the window, then hand on what
\* of the current unit is certain to be its data, keeping the backtrack zeros.
push(rd, data, first, last) ==
    LET r == PushBytes(rd, data, first, last)
        k == Backtrack(r.state)
        frag == DropLast(r.pend, k)
    IN  IF InUnitState(r.state)
        THEN [r EXCEPT !.pend = Zeros(k),
                       !.inner = IF frag = <<>> THEN @ ELSE nal_fragment(@, frag, FALSE)]
        ELSE r

(***************************************************************************)
(* inspect_h264_annexb_sample: the feeding loop and the result.            *)
(***************************************************************************)
NoneFrames == [some |-> FALSE, val |-> 0]
SomeFrames(n) == [some |-> TRUE, val |-> n]

OkInspection(gop, d, n) ==
    [tag |-> "Ok", gop_detection |-> gop, details |-> d, num_frames_detected |-> n,
     error |-> "", arg |-> ""]

ErrInspection(kind, arg) ==
    [tag |-> "Err", gop_detection |-> "", details |-> NoDetails,
     num_frames_detected |-> NoneFrames, error |-> kind, arg |-> arg]

NoResult ==
    [tag |-> "", gop_detection |-> "", details |-> NoDetails,
     num_frames_detected |-> NoneFrames, error |-> "", arg |-> ""]

\* Faulty variant: StartOfGop as soon as an SPS decoded, IDR slice or not.
AssembleResult_NoIdrCheck(handler) ==
    LET sps == handler.coding_details_from_sps IN
    IF sps.tag = "SomeErr"
    THEN ErrInspection("FailedToExtractEncodingDetails", sps.error)
    ELSE IF sps.tag = "SomeOk"
    THEN OkInspection("StartOfGop", sps.details, SomeFrames(handler.num_frames_detected))
    ELSE OkInspection("NotStartOfGop", NoDetails, SomeFrames(handler.num_frames_detected))

\* Faulty variant: no frame count is reported when no frame was detected.
AssembleResult_NoneWhenZero(handler) ==
    LET sps == handler.coding_details_from_sps
        n == IF handler.num_frames_detected = 0 THEN NoneFrames
             ELSE SomeFrames(handler.num_frames_detected)
    IN
    IF sps.tag = "SomeErr"
    THEN ErrInspection("FailedToExtractEncodingDetails", sps.error)
    ELSE IF sps.tag = "SomeOk" /\ handler.idr_frame_found
    THEN OkInspection("StartOfGop", sps.details, n)
    ELSE OkInspection("NotStartOfGop", NoDetails, n)

\* Faulty variant: the frame count is reported with StartOfGop only.
AssembleResult_NoCountUnlessGop(handler) ==
    LET sps == handler.coding_details_from_sps IN
    IF sps.tag = "SomeErr"
    THEN ErrInspection("FailedToExtractEncodingDetails", sps.error)
    ELSE IF sps.tag = "SomeOk" /\ handler.idr_frame_found
    THEN OkInspection("StartOfGop", sps.details, SomeFrames(handler.num_frames_detected))
    ELSE OkInspection("NotStartOfGop", NoDetails, NoneFrames)

\* Faulty variant: the error carries a fixed message, not the stored one.
AssembleResult_FixedMessage(handler) ==
    LET sps == handler.coding_details_from_sps IN
    IF sps.tag = "SomeErr"
    THEN ErrInspection("FailedToExtractEncodingDetails", "Failed reading SPS")
    ELSE IF sps.tag = "SomeOk" /\ handler.idr_frame_found
    THEN OkInspection("StartOfGop", sps.details, SomeFrames(handler.num_frames_detected))
    ELSE OkInspection("NotStartOfGop", NoDetails, SomeFrames(handler.num_frames_detected))

\* Faulty variant: a stored SPS failure is reported only when no IDR slice was
\* found.
AssembleResult_IdrOverridesError(handler) ==
    LET sps == handler.coding_details_from_sps IN
    IF sps.tag = "SomeErr" /\ ~handler.idr_frame_found
    THEN ErrInspection("FailedToExtractEncodingDetails", sps.error)
    ELSE IF sps.tag = "SomeOk" /\ handler.idr_frame_found
    THEN OkInspection("StartOfGop", sps.details, SomeFrames(handler.num_frames_detected))
    ELSE OkInspection("NotStartOfGop", NoDetails, SomeFrames(handler.num_frames_detected))

\* The match on handler.coding_details_from_sps and the Ok(..) that follows it.
AssembleResult(handler) ==
    LET sps == handler.coding_details_from_sps IN
    IF sps.tag = "SomeErr"
    THEN ErrInspection("FailedToExtractEncodingDetails", sps.error)
    ELSE IF sps.tag = "SomeOk" /\ handler.idr_frame_found
    THEN OkInspection("StartOfGop", sps.details, SomeFrames(handler.num_frames_detected))
    ELSE OkInspection("NotStartOfGop", NoDetails, SomeFrames(handler.num_frames_detected))

\* The while loop with the window size as a parameter (MAX_CHUNK_SIZE in the
\* code): window k of window-size w is data[(k-1)*w + 1 .. min(k*w, len)], and the
\* windows klo..khi are pushed in order (the range split as in PushBytes).
NumWindows(len, window) == (len + window - 1) \div window

RECURSIVE FeedWindows(_, _, _, _, _)
FeedWindows(rd, data, window, klo, khi) ==
    IF klo > khi THEN rd
    ELSE IF klo = khi
    THEN push(rd, data, (klo - 1) * window + 1, Min(klo * window, Len(data)))
    ELSE LET mid == (klo + khi) \div 2
             left == FeedWindows(rd, data, window, klo, mid)
         IN  IF left.state \in ParseStates
             THEN FeedWindows(left, data, window, mid + 1, khi) ELSE left

FinalHandler(data, window) ==
    FeedWindows(AnnexBReader_accumulate(H264InspectionState_default), data, window,
                1, NumWindows(Len(data), window)).inner.nal_handler

InspectWithWindow(data, window) == AssembleResult(FinalHandler(data, window))

inspect_h264_annexb_sample(data) == InspectWithWindow(data, MAX_CHUNK_SIZE)

(***************************************************************************)
(* Input chunks.                                                           *)
(***************************************************************************)
StartCode == <<0, 0, 1>>

\* SPS (0x67) with profile 0x64, with profile 0x42, and with a byte left over;
\* IDR slice (0x65) with one payload byte; non-IDR slice (0x61) alone;
\* SEI (0x06); a header with the forbidden bit set (0xE5).
UnitTemplates ==
    { StartCode \o <<103, 100>>,
      StartCode \o <<103, 66>>,
      StartCode \o <<103, 100, 172>>,
      StartCode \o <<101, 136>>,
      StartCode \o <<97>>,
      StartCode \o <<6>>,
      StartCode \o <<229>> }

\* Nothing; a further start code; trailing zero bytes.
Trailers == {<<>>, StartCode, <<0, 0, 0>>}

\* Leading zero bytes that put the boundary of the first window inside the units.
Leads == {Zeros(MAX_CHUNK_SIZE - k) : k \in 1..MaxOff}

GarbageBytes == {0, 1, 101, 103}

UnitChunks ==
    {Flatten(us) \o t : us \in SeqsUpTo(UnitTemplates, MaxUnits) \ {<<>>}, t \in Trailers}

PaddedChunks ==
    {lead \o Flatten(us) \o t :
        lead \in Leads, us \in SeqsUpTo(UnitTemplates, MaxPaddedUnits) \ {<<>>}, t \in Trailers}

StructuredChunks == UnitChunks \cup PaddedChunks

Chunks == SeqsUpTo(GarbageBytes, MaxGarbage) \cup StructuredChunks

(***************************************************************************)
(* re_renderer: the draw phases, meshes and mesh instances                 *)
(* (crates/viewer/re_renderer/src/renderer/mesh_renderer.rs).  A mesh is   *)
(* the address of its allocation, and has_transparency of its materials    *)
(* is all the renderer reads of them here.                                 *)
(***************************************************************************)
DrawPhase == {"Opaque", "Transparent", "OutlineMask", "PickingLayer"}

\* Arc::as_ptr(&instance.gpu_mesh): four meshes, in the order of their addresses.
MeshPtrs == {1, 2, 3, 4}

\* has_transparency of the materials of each mesh: one opaque material, a
\* transparent and an opaque one, one transparent material, no material.
Materials(mesh) ==
    CASE mesh = 1 -> <<FALSE>>
      [] mesh = 2 -> <<TRUE, FALSE>>
      [] mesh = 3 -> <<TRUE>>
      [] OTHER -> <<>>

\* GpuMeshInstance: the mesh, whether outline_mask_ids is Some or None, and the
\* picking layer id, which here tells the instances of a call apart.
GpuMeshInstance(mesh, outline, id) ==
    [gpu_mesh |-> mesh, outline_mask_ids |-> outline, picking_layer_id |-> id]

OutlineMaskPreferences == {"None", "Some"}

InstanceLists ==
    UNION { { [i \in 1..n |-> GpuMeshInstance(f[i][1], f[i][2], i)] :
                f \in [1..n -> MeshPtrs \X OutlineMaskPreferences] } :
            n \in 0..MaxInstances }

is_some(instance) == instance.outline_mask_ids = "Some"
is_none(instance) == instance.outline_mask_ids = "None"

\* instances_by_mesh: the instances of each mesh in the order passed in, the
\* meshes in the order of the BTreeMap's keys.
RECURSIVE GroupsFrom(_, _)
GroupsFrom(instances, ptrs) ==
    IF ptrs = {} THEN <<>>
    ELSE LET mesh == CHOOSE m \in ptrs : \A o \in ptrs : m <= o
             group == SelectSeq(instances, LAMBDA i : i.gpu_mesh = mesh)
         IN  (IF group = <<>> THEN <<>> ELSE <<group>>)
                 \o GroupsFrom(instances, ptrs \ {mesh})

instances_by_mesh(instances) == GroupsFrom(instances, MeshPtrs)

\* instances.sort_by(|a, b| a.is_none().cmp(&b.is_none())): a stable sort that
\* puts false (an outline) before true (none).
sort_by_is_none(group) == SelectSeq(group, is_some) \o SelectSeq(group, is_none)

\* Faulty variant: every batch subscribes to the outline mask phase.
draw_phases_of_AlwaysOutlineMask(mesh, count_with_outlines) ==
    LET materials == Materials(mesh)
        any_material_has_transparency == \E k \in DOMAIN materials : materials[k]
        all_materials_have_transparency == \A k \in DOMAIN materials : materials[k]
    IN  {"PickingLayer", "OutlineMask"}
          \cup (IF any_material_has_transparency THEN {"Transparent"} ELSE {})
          \cup (IF ~all_materials_have_transparency THEN {"Opaque"} ELSE {})

\* The EnumSet of phases a batch subscribes to.
draw_phases_of(mesh, count_with_outlines) ==
    LET materials == Materials(mesh)
        any_material_has_transparency == \E k \in DOMAIN materials : materials[k]
        all_materials_have_transparency == \A k \in DOMAIN materials : materials[k]
    IN  {"PickingLayer"}
          \cup (IF count_with_outlines > 0 THEN {"OutlineMask"} ELSE {})
          \cup (IF any_material_has_transparency THEN {"Transparent"} ELSE {})
          \cup (IF ~all_materials_have_transparency THEN {"Opaque"} ELSE {})

\* Faulty variant: the instances of a group are batched in the order passed in.
BuildBatch_Unsorted(group, num_processed_instances) ==
    LET count == Len(group)
        count_with_outlines == Len(SelectSeq(group, is_some))
    IN  [staged |-> group,
         count |-> count,
         batch |-> [mesh |-> group[1].gpu_mesh,
                    instance_start_index |-> num_processed_instances,
                    instance_end_index |-> num_processed_instances + count,
                    instance_end_index_with_outlines |->
                        num_processed_instances + count_with_outlines,
                    draw_phases |-> draw_phases_of(group[1].gpu_mesh, count_with_outlines)]]

\* One iteration of the loop over instances_by_mesh, for a group that is not
\* empty: the instances pushed to the staging buffer, their count, and the batch.
BuildBatch(group, num_processed_instances) ==
    LET sorted == sort_by_is_none(group)
        count == Len(sorted)
        count_with_outlines == Len(SelectSeq(sorted, is_some))
    IN  [staged |-> sorted,
         count |-> count,
         batch |-> [mesh |-> sorted[1].gpu_mesh,
                    instance_start_index |-> num_processed_instances,
                    instance_end_index |-> num_processed_instances + count,
                    instance_end_index_with_outlines |->
                        num_processed_instances + count_with_outlines,
                    draw_phases |-> draw_phases_of(sorted[1].gpu_mesh, count_with_outlines)]]

\* MeshDrawData::new is not running.  phase and drawn are the phase of the last
\* call of MeshRenderer::draw and the instance ranges it drew.
NoMesh ==
    [pc |-> "none", instances_by_mesh |-> <<>>, num_processed_instances |-> 0,
     batches |-> <<>>, instance_buffer_staging |-> <<>>, instance_buffer |-> "None",
     phase |-> "", drawn |-> <<>>]

\* The instance range MeshRenderer::draw draws of a batch in a phase.
instance_range(mesh_batch, phase) ==
    IF phase = "OutlineMask"
    THEN [start |-> mesh_batch.instance_start_index,
          end |-> mesh_batch.instance_end_index_with_outlines]
    ELSE [start |-> mesh_batch.instance_start_index,
          end |-> mesh_batch.instance_end_index]

\* Range::is_empty
is_empty(range) == ~(range.start < range.end)

(***************************************************************************)
(* DrawPhaseManager and DrawableCollector                                  *)
(* (crates/viewer/re_renderer/src/draw_phase_manager.rs).                  *)
(***************************************************************************)
DrawPhaseManager_new(active_phases) ==
    [active_phases |-> active_phases,
     drawables |-> [p \in DrawPhase |-> <<>>],
     draw_data |-> <<>>]

\* DrawDataDrawable
DrawDataDrawable(payload) == [distance_sort_key |-> "MAX", draw_data_payload |-> payload]

\* drawables.iter().map(|info| Drawable { info, draw_data_key })
Drawables(drawables, draw_data_index) ==
    [i \in DOMAIN drawables |-> [info |-> drawables[i], draw_data_key |-> draw_data_index]]

\* Faulty variant: the drawables go to every requested phase, active or not.
add_drawables_AllRequested(per_phase_drawables, draw_data_index, phases, drawables) ==
    [per_phase_drawables EXCEPT
       !.drawables = [p \in DrawPhase |->
                        IF p \in phases
                        THEN @[p] \o Drawables(drawables, draw_data_index)
                        ELSE @[p]]]

\* DrawableCollector::add_drawables: the manager after the call.
add_drawables(per_phase_drawables, draw_data_index, phases, drawables) ==
    LET active == per_phase_drawables.active_phases \cap phases IN
    [per_phase_drawables EXCEPT
       !.drawables = [p \in DrawPhase |->
                        IF p \in active
                        THEN @[p] \o Drawables(drawables, draw_data_index)
                        ELSE @[p]]]

\* DrawableCollector::add_drawable
add_drawable(per_phase_drawables, draw_data_index, phases, drawable) ==
    add_drawables(per_phase_drawables, draw_data_index, phases, <<drawable>>)

\* MeshDrawData::collect_drawables: one add_drawable per batch, from batch_idx
\* (counted from 0) on.
RECURSIVE collect_drawables(_, _, _, _)
collect_drawables(per_phase_drawables, draw_data_index, batches, batch_idx) ==
    IF batch_idx >= Len(batches) THEN per_phase_drawables
    ELSE collect_drawables(
             add_drawable(per_phase_drawables, draw_data_index,
                          batches[batch_idx + 1].draw_phases, DrawDataDrawable(batch_idx)),
             draw_data_index, batches, batch_idx + 1)

\* There is no DrawPhaseManager, and no add_draw_data is running.
NoManager == DrawPhaseManager_new({})

NoAdd == [some |-> FALSE, phases |-> {}, drawables |-> <<>>, draw_data_index |-> 0,
          before |-> [p \in DrawPhase |-> <<>>]]

\* A draw data handed to add_draw_data, told from the others by the number of
\* the call it is handed to (the first call has number 1; 0 is no draw data).
QueueableDrawData(serial) == [serial |-> serial]

\* calls counts the calls of add_draw_data begun; origins[p][i] is the serial of
\* the draw data whose collect_drawables added the i-th drawable of phase p.
NoCollector == [pc |-> "none", draw_data_index |-> 0, draw_data |-> QueueableDrawData(0),
                adds |-> 0, last_add |-> NoAdd, calls |-> 0,
                origins |-> [p \in DrawPhase |-> <<>>]]

\* origins after a step of collect_drawables that took the drawables of the
\* phases from before to after.
Collected(origins, before, after, serial) ==
    [p \in DrawPhase |->
        origins[p] \o [i \in 1..(Len(after[p]) - Len(before[p])) |-> serial]]

(***************************************************************************)
(* inspect_video_chunk as a function of its arguments: the result of a     *)
(* call that runs alone.                                                   *)
(***************************************************************************)
inspect_video_chunk(data, c) ==
    IF c = "H264" THEN inspect_h264_annexb_sample(data)
    ELSE ErrInspection("UnsupportedCodec", c)

(***************************************************************************)
(* The state machine.  Spec is one call of inspect_video_chunk.  SpecCalls *)
(* is a caller that calls again and again, and SpecThreads two threads     *)
(* each making one call; their chunks come from CallInputs.                *)
(***************************************************************************)
VARIABLES
    input,        \* the sample_data argument
    codec,        \* the codec argument
    pc,           \* "call", "loop" (in the while loop) or "done"
    sample_data,  \* index of the first byte of input not yet pushed
    reader,       \* the AnnexBReader (with its accumulator and handler)
    num_pushes,   \* calls of reader.push so far
    result,       \* the value returned
    history,      \* the first call that returned, and whether others followed
    other,        \* the call of a second thread: its arguments, locals and result
    instances,    \* the instances argument of MeshDrawData::new
    mesh,         \* MeshDrawData::new: its position, locals and the MeshDrawData built
    manager,      \* the DrawPhaseManager
    collector     \* add_draw_data: the DrawableCollector and the draw data being added

video_vars == <<input, codec, pc, sample_data, reader, num_pushes, result, history, other>>

render_vars == <<instances, mesh, manager, collector>>

\* What a call of the first thread leaves alone.
outside_call == <<history, other, render_vars>>

vars == <<video_vars, render_vars>>

\* The renderer is not in use.
NoRender ==
    /\ instances = <<>>
    /\ mesh = NoMesh
    /\ manager = NoManager
    /\ collector = NoCollector

\* No call has returned yet.
NoHistory ==
    [some |-> FALSE, input |-> <<>>, codec |-> "", result |-> NoResult, between |-> FALSE]

\* There is no second thread.
NoThread ==
    [pc |-> "none", input |-> <<>>, codec |-> "", sample_data |-> 1,
     reader |-> AnnexBReader_accumulate(H264InspectionState_default),
     result |-> NoResult, concurrent |-> FALSE]

\* The state of the first thread at its call, for the chunks in inputs.
InitCall(inputs) ==
    /\ input \in inputs
    /\ codec \in VideoCodecs
    /\ pc = "call"
    /\ sample_data = 1
    /\ reader = AnnexBReader_accumulate(H264InspectionState_default)
    /\ num_pushes = 0
    /\ result = NoResult

Init ==
    /\ InitCall(Chunks)
    /\ history = NoHistory
    /\ other = NoThread
    /\ NoRender

\* Faulty variant: the reader of the previous call is used again.
CallH264_ReaderReused ==
    /\ pc = "call"
    /\ codec = "H264"
    /\ pc' = "loop"
    /\ sample_data' = 1
    /\ num_pushes' = 0
    /\ UNCHANGED <<input, codec, reader, result, outside_call>>

\* match codec { H264 => inspect_h264_annexb_sample(sample_data), .. } and the
\* creation of the reader around a default H264InspectionState.
CallH264 ==
    /\ pc = "call"
    /\ codec = "H264"
    /\ pc' = "loop"
    /\ sample_data' = 1
    /\ reader' = AnnexBReader_accumulate(H264InspectionState_default)
    /\ num_pushes' = 0
    /\ UNCHANGED <<input, codec, result, outside_call>>

\* Faulty variant: the error names a fixed codec instead of the one passed in.
CallUnsupported_FixedCodec ==
    /\ pc = "call"
    /\ codec # "H264"
    /\ result' = ErrInspection("UnsupportedCodec", "H265")
    /\ pc' = "done"
    /\ UNCHANGED <<input, codec, sample_data, reader, num_pushes, outside_call>>

\* match codec { .. other => Err(UnsupportedCodec(codec)) }
CallUnsupported ==
    /\ pc = "call"
    /\ codec # "H264"
    /\ result' = ErrInspection("UnsupportedCodec", codec)
    /\ pc' = "done"
    /\ UNCHANGED <<input, codec, sample_data, reader, num_pushes, outside_call>>

\* Faulty variant: the window pushed is one byte shorter than what is removed
\* from the remaining input.
PushWindow_ShortWindow ==
    /\ pc = "loop"
    /\ sample_data <= Len(input)
    /\ LET chunk_size == Min(MAX_CHUNK_SIZE, Len(input) - sample_data + 1) IN
         /\ reader' = [push(reader, input, sample_data, sample_data + chunk_size - 2) EXCEPT
                          !.pushes = Append(@, [first |-> sample_data,
                                                last |-> sample_data + chunk_size - 2])]
         /\ sample_data' = sample_data + chunk_size
    /\ num_pushes' = num_pushes + 1
    /\ UNCHANGED <<input, codec, pc, result, outside_call>>

\* Faulty variant: windows of half the size.
PushWindow_HalfWindows ==
    /\ pc = "loop"
    /\ sample_data <= Len(input)
    /\ LET chunk_size == Min(MAX_CHUNK_SIZE \div 2, Len(input) - sample_data + 1) IN
         /\ reader' = [push(reader, input, sample_data, sample_data + chunk_size - 1) EXCEPT
                          !.pushes = Append(@, [first |-> sample_data,
                                                last |-> sample_data + chunk_size - 1])]
         /\ sample_data' = sample_data + chunk_size
    /\ num_pushes' = num_pushes + 1
    /\ UNCHANGED <<input, codec, pc, result, outside_call>>

\* Faulty variant: a do-while loop, which pushes once before testing whether
\* anything is left.
PushWindow_DoWhile ==
    /\ pc = "loop"
    /\ num_pushes = 0 \/ sample_data <= Len(input)
    /\ LET chunk_size == Min(MAX_CHUNK_SIZE, Len(input) - sample_data + 1) IN
         /\ reader' = [push(reader, input, sample_data, sample_data + chunk_size - 1) EXCEPT
                          !.pushes = Append(@, [first |-> sample_data,
                                                last |-> sample_data + chunk_size - 1])]
         /\ sample_data' = sample_data + chunk_size
    /\ num_pushes' = num_pushes + 1
    /\ UNCHANGED <<input, codec, pc, result, outside_call>>

\* One iteration of the while loop.
PushWindow ==
    /\ pc = "loop"
    /\ sample_data <= Len(input)
    /\ LET chunk_size == Min(MAX_CHUNK_SIZE, Len(input) - sample_data + 1) IN
         /\ reader' = [push(reader, input, sample_data, sample_data + chunk_size - 1) EXCEPT
                          !.pushes = Append(@, [first |-> sample_data,
                                                last |-> sample_data + chunk_size - 1])]
         /\ sample_data' = sample_data + chunk_size
    /\ num_pushes' = num_pushes + 1
    /\ UNCHANGED <<input, codec, pc, result, outside_call>>

\* Faulty variant: the reader is flushed before it is turned into its handler,
\* which ends the unit it is in.
Finish_Flushed ==
    /\ pc = "loop"
    /\ sample_data > Len(input)
    /\ reader' = IF InUnitState(reader.state)
                  THEN [reader EXCEPT !.state = "Start", !.pend = <<>>,
                                      !.inner = nal_fragment(@, <<>>, TRUE)]
                  ELSE reader
    /\ result' = AssembleResult(reader'.inner.nal_handler)
    /\ pc' = "done"
    /\ UNCHANGED <<input, codec, sample_data, num_pushes, outside_call>>

\* reader.into_nal_handler() and the assembly of the result.
Finish ==
    /\ pc = "loop"
    /\ sample_data > Len(input)
    /\ result' = AssembleResult(reader.inner.nal_handler)
    /\ pc' = "done"
    /\ UNCHANGED <<input, codec, sample_data, reader, num_pushes, outside_call>>

Next == CallH264 \/ CallUnsupported \/ PushWindow \/ Finish

Spec == Init /\ [][Next]_vars

(***************************************************************************)
(* The feeding loop on long chunks.  The function is sequential code run   *)
(* by the thread that called it: as long as it has not returned, the       *)
(* thread eventually takes its next step.  Every step of Next moves the    *)
(* program counter or shortens the remaining input, and one is possible    *)
(* exactly while pc is not "done"; so the fairness of the thread is weak   *)
(* fairness of Running, the steps that change pc or sample_data before the *)
(* return.                                                                 *)
(***************************************************************************)
\* Chunks that end just before, at, and just after a window boundary: zero
\* bytes up to near the boundary, then nothing or one unit.
FeederChunks ==
    {Zeros(n) \o u :
        n \in {0} \cup {k * MAX_CHUNK_SIZE - d : k \in 1..MaxWindows, d \in 0..2},
        u \in {<<>>} \cup UnitTemplates}

InitFeeder ==
    /\ InitCall(FeederChunks)
    /\ history = NoHistory
    /\ other = NoThread
    /\ NoRender

Running ==
    /\ pc # "done"
    /\ pc' \in {"call", "loop", "done"}
    /\ sample_data' \in 1..(Len(input) + 1)

SpecFeeder == InitFeeder /\ [][Next]_vars /\ WF_<<pc, sample_data>>(Running)

(***************************************************************************)
(* Repeated calls.  The caller takes the result and calls again with any   *)
(* chunk and codec.  What the finished call left in its locals is garbage  *)
(* to the next call, which history does not change: it remembers the first *)
(* call that returned, and whether a call with other arguments returned    *)
(* after it.                                                               *)
(***************************************************************************)
\* A valid SPS and an IDR slice; slices without SPS; an SPS that fails to
\* decode; an SPS and an IDR slice that the window boundary cuts; nothing;
\* bytes without start code.
CallInputs ==
    { StartCode \o <<103, 100>> \o StartCode \o <<101, 136>>,
      StartCode \o <<101, 136>> \o StartCode \o <<97>>,
      StartCode \o <<103, 100, 172>> \o StartCode,
      Zeros(MAX_CHUNK_SIZE - 4) \o StartCode \o <<103, 66>> \o StartCode \o <<101, 136>>,
      <<>>,
      <<0, 0, 0, 103>> }

InitCalls ==
    /\ InitCall(CallInputs)
    /\ history = NoHistory
    /\ other = NoThread
    /\ NoRender

CallAgain ==
    /\ pc = "done"
    /\ history' =
         IF ~history.some
         THEN [some |-> TRUE, input |-> input, codec |-> codec, result |-> result,
               between |-> FALSE]
         ELSE [history EXCEPT
                 !.between = @ \/ input # history.input \/ codec # history.codec]
    /\ input' \in CallInputs
    /\ codec' \in VideoCodecs
    /\ pc' = "call"
    /\ result' = NoResult
    /\ UNCHANGED <<sample_data, reader, num_pushes, other, render_vars>>

NextCalls == Next \/ CallAgain

SpecCalls == InitCalls /\ [][NextCalls]_vars

(***************************************************************************)
(* Two threads.  The second thread makes one call of its own, on its own   *)
(* arguments and with its own locals, its steps interleaved in any way     *)
(* with those of the first.  concurrent records that it took a step while  *)
(* the first thread was inside its scan.                                   *)
(***************************************************************************)
InitThreads ==
    /\ InitCall(CallInputs)
    /\ history = NoHistory
    /\ other \in {[NoThread EXCEPT !.pc = "call", !.input = i, !.codec = c] :
                     i \in CallInputs, c \in VideoCodecs}
    /\ NoRender

OtherStepsTo(next) ==
    /\ other' = [next EXCEPT !.concurrent = @ \/ pc = "loop"]
    /\ UNCHANGED <<input, codec, pc, sample_data, reader, num_pushes, result, history,
                   render_vars>>

\* Faulty variant: the second thread scans with the reader of the first.
OtherCallH264_SharedReader ==
    /\ other.pc = "call"
    /\ other.codec = "H264"
    /\ OtherStepsTo([other EXCEPT !.pc = "loop", !.sample_data = 1, !.reader = reader])

OtherCallH264 ==
    /\ other.pc = "call"
    /\ other.codec = "H264"
    /\ OtherStepsTo([other EXCEPT
                       !.pc = "loop",
                       !.sample_data = 1,
                       !.reader = AnnexBReader_accumulate(H264InspectionState_default)])

OtherCallUnsupported ==
    /\ other.pc = "call"
    /\ other.codec # "H264"
    /\ OtherStepsTo([other EXCEPT
                       !.pc = "done",
                       !.result = ErrInspection("UnsupportedCodec", other.codec)])

OtherPushWindow ==
    /\ other.pc = "loop"
    /\ other.sample_data <= Len(other.input)
    /\ LET chunk_size == Min(MAX_CHUNK_SIZE, Len(other.input) - other.sample_data + 1) IN
         OtherStepsTo([other EXCEPT
                         !.reader = push(other.reader, other.input, other.sample_data,
                                         other.sample_data + chunk_size - 1),
                         !.sample_data = other.sample_data + chunk_size])

OtherFinish ==
    /\ other.pc = "loop"
    /\ other.sample_data > Len(other.input)
    /\ OtherStepsTo([other EXCEPT
                       !.pc = "done",
                       !.result = AssembleResult(other.reader.inner.nal_handler)])

NextThreads ==
    \/ Next
    \/ OtherCallH264 \/ OtherCallUnsupported \/ OtherPushWindow \/ OtherFinish

SpecThreads == InitThreads /\ [][NextThreads]_vars

(***************************************************************************)
(* The renderer.  No call of inspect_video_chunk is made in SpecMesh and   *)
(* SpecDraw.                                                               *)
(***************************************************************************)
NoCall ==
    /\ input = <<>>
    /\ codec = "H264"
    /\ pc = "none"
    /\ sample_data = 1
    /\ reader = AnnexBReader_accumulate(H264InspectionState_default)
    /\ num_pushes = 0
    /\ result = NoResult
    /\ history = NoHistory
    /\ other = NoThread

(***************************************************************************)
(* SpecMesh: one call of MeshDrawData::new, a step per iteration of its    *)
(* loop over the meshes.                                                   *)
(***************************************************************************)
\* The phases active in the view the meshes are drawn in.
MeshActivePhases ==
    {DrawPhase, {"OutlineMask", "Opaque"}, {"PickingLayer", "Transparent"}}

InitMesh ==
    /\ NoCall
    /\ instances \in InstanceLists
    /\ mesh = [NoMesh EXCEPT !.pc = "new"]
    /\ manager \in {DrawPhaseManager_new(active_phases) : active_phases \in MeshActivePhases}
    /\ collector = NoCollector

\* if instances.is_empty() { return Ok(Self { batches: Vec::new(), instance_buffer: None }) }
MeshNewEmpty ==
    /\ mesh.pc = "new"
    /\ instances = <<>>
    /\ mesh' = [mesh EXCEPT !.pc = "done"]
    /\ UNCHANGED <<video_vars, instances, manager, collector>>

\* The grouping by mesh, and the allocation of the staging buffer.
MeshGroupByMesh ==
    /\ mesh.pc = "new"
    /\ instances # <<>>
    /\ mesh' = [mesh EXCEPT !.pc = "batching",
                            !.instances_by_mesh = instances_by_mesh(instances)]
    /\ UNCHANGED <<video_vars, instances, manager, collector>>

\* for (_mesh_ptr, mut instances) in instances_by_mesh { .. }: one iteration.
MeshNextBatch ==
    /\ mesh.pc = "batching"
    /\ mesh.instances_by_mesh # <<>>
    /\ LET b == BuildBatch(Head(mesh.instances_by_mesh), mesh.num_processed_instances) IN
       mesh' = [mesh EXCEPT
                  !.instances_by_mesh = Tail(@),
                  !.instance_buffer_staging = @ \o b.staged,
                  !.batches = Append(@, b.batch),
                  !.num_processed_instances = @ + b.count]
    /\ UNCHANGED <<video_vars, instances, manager, collector>>

\* assert_eq!(num_processed_instances, instances.len()), the copy of the
\* staging buffer, and the return.
MeshReturn ==
    /\ mesh.pc = "batching"
    /\ mesh.instances_by_mesh = <<>>
    /\ mesh' = IF mesh.num_processed_instances = Len(instances)
               THEN [mesh EXCEPT !.pc = "done", !.instance_buffer = "Some"]
               ELSE [mesh EXCEPT !.pc = "panic"]
    /\ UNCHANGED <<video_vars, instances, manager, collector>>

\* DrawPhaseManager::add_draw_data with the MeshDrawData just built.
MeshAddDrawData ==
    /\ mesh.pc = "done"
    /\ LET draw_data_index == Len(manager.draw_data)
           collected == collect_drawables(manager, draw_data_index, mesh.batches, 0)
       IN  manager' = [collected EXCEPT !.draw_data = Append(@, QueueableDrawData(1))]
    /\ mesh' = [mesh EXCEPT !.pc = "added"]
    /\ UNCHANGED <<video_vars, instances, collector>>

\* MeshRenderer::draw for an active phase, with the drawables the manager holds
\* for that phase.  Without an instance buffer nothing is drawn; otherwise the
\* range of each drawable's batch is drawn, and a build with debug assertions
\* panics on an empty range.
MeshDraw ==
    /\ mesh.pc = "added"
    /\ \E phase \in manager.active_phases, debug_assertions \in BOOLEAN :
         LET drawables == IF mesh.instance_buffer = "None" THEN <<>>
                          ELSE manager.drawables[phase]
             ranges == [i \in DOMAIN drawables |->
                          instance_range(mesh.batches[drawables[i].info.draw_data_payload + 1],
                                         phase)]
         IN  mesh' = [mesh EXCEPT
                        !.pc = IF debug_assertions /\ \E i \in DOMAIN ranges : is_empty(ranges[i])
                               THEN "panic" ELSE "drawn",
                        !.phase = phase,
                        !.drawn = ranges]
    /\ UNCHANGED <<video_vars, instances, manager, collector>>

NextMesh ==
    MeshNewEmpty \/ MeshGroupByMesh \/ MeshNextBatch \/ MeshReturn \/ MeshAddDrawData \/ MeshDraw

SpecMesh == InitMesh /\ [][NextMesh]_vars

(***************************************************************************)
(* SpecDraw: a DrawPhaseManager to which draw data are added.  The draw    *)
(* data's collect_drawables is any sequence of add_drawables and           *)
(* add_drawable calls on the collector.  last_add records the arguments of *)
(* the latest of them and the drawables as they were before it, and adds   *)
(* counts them.                                                            *)
(***************************************************************************)
RequestedPhases == {{}, {"Opaque"}, {"PickingLayer", "OutlineMask"}, DrawPhase}

DrawableLists ==
    {<<>>, <<DrawDataDrawable(0)>>, <<DrawDataDrawable(0), DrawDataDrawable(1)>>}

InitDraw ==
    /\ NoCall
    /\ instances = <<>>
    /\ mesh = NoMesh
    /\ manager \in {DrawPhaseManager_new(active_phases) : active_phases \in SUBSET DrawPhase}
    /\ collector = NoCollector

\* Faulty variant: the index is the length draw_data has after the push.
BeginAddDrawData_IndexAfterPush ==
    /\ collector.pc = "none"
    /\ Len(manager.draw_data) < MaxDrawData
    /\ collector' = [collector EXCEPT
                       !.pc = "collecting",
                       !.draw_data_index = Len(manager.draw_data) + 1,
                       !.draw_data = QueueableDrawData(collector.calls + 1),
                       !.calls = @ + 1]
    /\ UNCHANGED <<video_vars, instances, mesh, manager>>

\* add_draw_data, up to the call of collect_drawables.
BeginAddDrawData ==
    /\ collector.pc = "none"
    /\ Len(manager.draw_data) < MaxDrawData
    /\ collector' = [collector EXCEPT
                       !.pc = "collecting",
                       !.draw_data_index = Len(manager.draw_data),
                       !.draw_data = QueueableDrawData(collector.calls + 1),
                       !.calls = @ + 1]
    /\ UNCHANGED <<video_vars, instances, mesh, manager>>

\* A step of collect_drawables: collector.add_drawables(phases, drawables).
CollectDrawables ==
    /\ collector.pc = "collecting"
    /\ collector.adds < MaxAdds
    /\ \E phases \in RequestedPhases, drawables \in DrawableLists :
         /\ manager' = add_drawables(manager, collector.draw_data_index, phases, drawables)
         /\ collector' = [collector EXCEPT
                            !.adds = @ + 1,
                            !.last_add = [some |-> TRUE, phases |-> phases,
                                          drawables |-> drawables,
                                          draw_data_index |-> collector.draw_data_index,
                                          before |-> manager.drawables],
                            !.origins = Collected(@, manager.drawables, manager'.drawables,
                                                  collector.draw_data.serial)]
    /\ UNCHANGED <<video_vars, instances, mesh>>

\* A step of collect_drawables: collector.add_drawable(phases, drawable).
CollectDrawable ==
    /\ collector.pc = "collecting"
    /\ collector.adds < MaxAdds
    /\ \E phases \in RequestedPhases, drawable \in {DrawDataDrawable(0), DrawDataDrawable(1)} :
         /\ manager' = add_drawable(manager, collector.draw_data_index, phases, drawable)
         /\ collector' = [collector EXCEPT
                            !.adds = @ + 1,
                            !.last_add = [some |-> TRUE, phases |-> phases,
                                          drawables |-> <<drawable>>,
                                          draw_data_index |-> collector.draw_data_index,
                                          before |-> manager.drawables],
                            !.origins = Collected(@, manager.drawables, manager'.drawables,
                                                  collector.draw_data.serial)]
    /\ UNCHANGED <<video_vars, instances, mesh>>

\* add_draw_data, after collect_drawables: self.draw_data.push(draw_data).
EndAddDrawData ==
    /\ collector.pc = "collecting"
    /\ manager' = [manager EXCEPT !.draw_data = Append(@, collector.draw_data)]
    /\ collector' = [collector EXCEPT !.pc = "none", !.last_add = NoAdd]
    /\ UNCHANGED <<video_vars, instances, mesh>>

NextDraw == BeginAddDrawData \/ CollectDrawables \/ CollectDrawable \/ EndAddDrawData

SpecDraw == InitDraw /\ [][NextDraw]_vars

(***************************************************************************)
(* The chunk as the Annex-B byte stream format describes it, independently *)
(* of the reader: a start code is 00 00 01, and the unit that follows it   *)
(* runs up to the next 00 00 00 or 00 00 01, or to the end of the chunk.   *)
(***************************************************************************)
\* Positions of the first byte of each start code.
StartCodes(b) == {i \in 1..(Len(b) - 2) : b[i] = 0 /\ b[i + 1] = 0 /\ b[i + 2] = 1}

\* Position that ends the unit following the start code at i (Len(b) + 1: the
\* chunk ends first).
UnitEnd(b, i) ==
    LET ends == {j \in (i + 3)..(Len(b) - 2) : b[j] = 0 /\ b[j + 1] = 0 /\ b[j + 2] \in {0, 1}}
    IN  IF ends = {} THEN Len(b) + 1 ELSE CHOOSE j \in ends : \A k \in ends : j <= k

UnitAt(b, i) == SubSeq(b, i + 3, UnitEnd(b, i) - 1)

\* The unit is followed, inside the chunk, by the bytes that end it.
Terminated(b, i) == UnitEnd(b, i) <= Len(b)

HasType(u, t) == u # <<>> /\ HeaderOk(u[1]) /\ UnitTypeId(u[1]) = t

SpsUnits(b) == {i \in StartCodes(b) : HasType(UnitAt(b, i), SeqParameterSet)}
IdrUnits(b) == {i \in StartCodes(b) : HasType(UnitAt(b, i), SliceLayerWithoutPartitioningIdr)}
NonIdrUnits(b) ==
    {i \in StartCodes(b) : HasType(UnitAt(b, i), SliceLayerWithoutPartitioningNonIdr)}
BadHeaderUnits(b) ==
    {i \in StartCodes(b) : UnitAt(b, i) # <<>> /\ ~HeaderOk(UnitAt(b, i)[1])}

Decodes(b, i) == SpsDecode(Tail(UnitAt(b, i))).ok

TerminatedSpsUnits(b) == {i \in SpsUnits(b) : Terminated(b, i)}

MaxOf(S) == CHOOSE i \in S : \A k \in S : k <= i

Done264 == pc = "done" /\ codec = "H264"

IsStartOfGop(r) == r.tag = "Ok" /\ r.gop_detection = "StartOfGop"

IsFailedToExtract(r) == r.tag = "Err" /\ r.error = "FailedToExtractEncodingDetails"

(***************************************************************************)
(* C1.  StartOfGop and the units of the chunk.                             *)
(***************************************************************************)
LastTerminatedSpsDecodes(b) ==
    TerminatedSpsUnits(b) # {} /\ Decodes(b, MaxOf(TerminatedSpsUnits(b)))

C3_LastSpsWins ==
    Done264 /\ Cardinality(SpsUnits(input)) >= 2 /\ IsStartOfGop(result)
        => LET last == MaxOf(SpsUnits(input)) IN
           /\ Decodes(input, last)
           /\ result.details = SpsDecode(Tail(UnitAt(input, last))).details

(***************************************************************************)
(* C4.  The frame count.                                                   *)
(***************************************************************************)
\* Units whose header parses as an IDR or a non-IDR slice.
NumSliceUnits(b) == Cardinality(IdrUnits(b) \cup NonIdrUnits(b))

\* C4 (as stated): for every H.264 input the inspection yields
\* num_frames_detected = Some(k), k the number of IDR and non-IDR slice units.
C4_AsStated ==
    Done264 => result.num_frames_detected = SomeFrames(NumSliceUnits(input))

\* C4 (amended): for every H.264 input on which the inspection returns Ok,
\* num_frames_detected = Some(k), k the number of IDR and non-IDR slice units
\* of the chunk; when it returns Err no count is returned.
C4_FrameCount ==
    Done264 /\ result.tag = "Ok"
        => result.num_frames_detected = SomeFrames(NumSliceUnits(input))

\* A count of at least two was returned for a chunk with slices of both kinds.
C4_Witness ==
    /\ Done264
    /\ result.tag = "Ok"
    /\ IdrUnits(input) # {} /\ NonIdrUnits(input) # {}
    /\ result.num_frames_detected.val >= 2

(***************************************************************************)
(* C5.  Codecs other than H.264.                                           *)
(***************************************************************************)
\* C5: for every codec other than H264 and every input, the inspection returns
\* Err(UnsupportedCodec(codec)) with the codec passed in, and the H.264 scan is
\* never entered: nothing is pushed and the reader is untouched.
C5_UnsupportedCodec ==
    codec # "H264" =>
        /\ pc # "loop"
        /\ num_pushes = 0
        /\ reader = AnnexBReader_accumulate(H264InspectionState_default)
        /\ pc = "done" => result = ErrInspection("UnsupportedCodec", codec)

\* A VP9 call on a chunk that holds an SPS and an IDR slice has returned.
C5_Witness ==
    /\ pc = "done"
    /\ codec = "VP9"
    /\ SpsUnits(input) # {} /\ IdrUnits(input) # {}
    /\ result.tag = "Err"

(***************************************************************************)
(* C6.  The window size.                                                   *)
(***************************************************************************)
\* C6: feeding the chunk in one window and feeding it in windows of any size
\* (1..MaxWin here, and the MAX_CHUNK_SIZE windows of the run itself) end in the
\* same handler state and the same inspection result.
C6_WindowSizeIrrelevant ==
    Done264 =>
        \A w \in (1..MaxWin) \cup ({Len(input)} \ {0}) :
            LET handler == FinalHandler(input, w) IN
            /\ handler = reader.inner.nal_handler
            /\ AssembleResult(handler) = result

\* A run of two MAX_CHUNK_SIZE windows, the boundary inside the units, has
\* returned StartOfGop.
C6_Witness ==
    /\ Done264
    /\ num_pushes >= 2
    /\ IsStartOfGop(result)

(***************************************************************************)
(* C7.  Totality and the error outcomes.                                   *)
(***************************************************************************)
\* C7: every call returns; its only errors are UnsupportedCodec (exactly for the
\* codecs other than H264) and FailedToExtractEncodingDetails (only when an SPS
\* unit of the chunk fails to decode), never NalHeaderError; every other input,
\* units with an unparsable header included, gives Ok with StartOfGop or
\* NotStartOfGop and a frame count.
C7_Total ==
    pc = "done" =>
        /\ result.tag \in {"Ok", "Err"}
        /\ result.tag = "Err" =>
             \/ codec # "H264" /\ result.error = "UnsupportedCodec"
             \/ /\ codec = "H264"
                /\ result.error = "FailedToExtractEncodingDetails"
                /\ \E i \in SpsUnits(input) : ~Decodes(input, i)
        /\ result.tag = "Ok" =>
             /\ codec = "H264"
             /\ result.gop_detection \in {"StartOfGop", "NotStartOfGop"}
             /\ result.num_frames_detected.some

\* Ok with a frame count was returned for a chunk holding a unit whose header
\* does not parse.
C7_Witness ==
    /\ Done264
    /\ BadHeaderUnits(input) # {}
    /\ result.tag = "Ok"
    /\ result.num_frames_detected.val >= 1

(***************************************************************************)
(* C8.  Order of SPS and IDR.                                              *)
(***************************************************************************)
ValidSpsTemplates == {StartCode \o <<103, 100>>, StartCode \o <<103, 66>>}
IdrTemplates == {StartCode \o <<101, 136>>}
SliceTemplates == IdrTemplates \cup {StartCode \o <<97>>}

\* C8: for a chunk made of one valid SPS unit and one IDR slice unit the
\* classification is the same whether the SPS comes before the IDR or after it.
C8_OrderIndependent ==
    \A s \in ValidSpsTemplates, d \in IdrTemplates :
        Done264 /\ input = s \o d =>
            LET swapped == inspect_h264_annexb_sample(d \o s) IN
            /\ swapped.tag = result.tag
            /\ swapped.gop_detection = result.gop_detection

(***************************************************************************)
(* C9.  Chunks without a start code.                                       *)
(***************************************************************************)
\* C9: for every chunk that contains no start code the handler state stays the
\* default one throughout the scan, and the inspection returns Ok with
\* NotStartOfGop and num_frames_detected = Some(0).
C9_NoStartCode ==
    codec = "H264" /\ StartCodes(input) = {} =>
        /\ reader.inner.nal_handler = H264InspectionState_default
        /\ pc = "done" => result = OkInspection("NotStartOfGop", NoDetails, SomeFrames(0))

\* The inspection of a chunk without start code, holding zero bytes and the
\* byte of an IDR header, has returned.
C9_Witness ==
    /\ Done264
    /\ StartCodes(input) = {}
    /\ num_pushes >= 1
    /\ \E i, j \in 1..Len(input) : input[i] = 0 /\ input[j] = 101

(***************************************************************************)
(* C10.  Appending a slice.                                                *)
(***************************************************************************)
\* C10: if the inspection of a chunk gives Some(k) and the inspection of the
\* chunk followed by one more slice unit gives Some(k'), then k' >= k.
C10_AppendMonotone ==
    Done264 /\ result.tag = "Ok" =>
        \A s \in SliceTemplates :
            LET longer == inspect_h264_annexb_sample(input \o s) IN
            longer.tag = "Ok" =>
                longer.num_frames_detected.val >= result.num_frames_detected.val

\* A chunk with a count of at least two whose extension by an IDR slice is
\* inspected without error.
C10_Witness ==
    /\ Done264
    /\ result.tag = "Ok"
    /\ result.num_frames_detected.val >= 2
    /\ \E s \in IdrTemplates : inspect_h264_annexb_sample(input \o s).tag = "Ok"

(***************************************************************************)
(* C11.  The frame count of an Ok result.                                  *)
(***************************************************************************)
\* C11: whenever the H.264 path returns Ok, num_frames_detected is Some(n),
\* never None, n being the final num_frames_detected of the handler the reader
\* was turned into; this includes Some(0) when no slice was seen.
C11_CountIsSome ==
    Done264 /\ result.tag = "Ok" =>
        /\ result.num_frames_detected.some
        /\ result.num_frames_detected =
               SomeFrames(reader.inner.nal_handler.num_frames_detected)

\* Ok with Some(0) was returned for a chunk that holds a decoded SPS unit and
\* no slice.
C11_Witness ==
    /\ Done264
    /\ result.tag = "Ok"
    /\ result.num_frames_detected = SomeFrames(0)
    /\ TerminatedSpsUnits(input) # {}
    /\ IdrUnits(input) \cup NonIdrUnits(input) = {}

(***************************************************************************)
(* C12.  The message of FailedToExtractEncodingDetails.                    *)
(***************************************************************************)
\* The error of the decode of the last SPS unit handed over complete.
LastSpsDecodeError(b) == SpsDecode(Tail(UnitAt(b, MaxOf(TerminatedSpsUnits(b))))).error

\* C12 (as stated): the message carried by FailedToExtractEncodingDetails
\* equals the message of the SPS decoder or mapper, unchanged.
C12_AsStated ==
    Done264 /\ IsFailedToExtract(result) => result.arg = LastSpsDecodeError(input)

\* C12 (amended): the message carried by FailedToExtractEncodingDetails is the
\* string the handler stored, unchanged, and that string is "Failed reading
\* SPS: " followed by the Debug rendering of the decoder's or mapper's error.
C12_MessageIsPrefixedError ==
    Done264 /\ IsFailedToExtract(result) =>
        /\ result.arg = reader.inner.nal_handler.coding_details_from_sps.error
        /\ result.arg = "Failed reading SPS: " \o LastSpsDecodeError(input)

\* The error of the repository's test: an SPS with a byte left over.
C12_Witness ==
    /\ Done264
    /\ result = ErrInspection("FailedToExtractEncodingDetails",
                              "Failed reading SPS: RbspReaderError(RemainingData)")

(***************************************************************************)
(* C13.  The assembly of the result.                                       *)
(***************************************************************************)
\* C13: if the final coding_details_from_sps of the handler is Some(Err(msg))
\* the inspection returns Err(FailedToExtractEncodingDetails(msg)) whatever
\* idr_frame_found and the frame count are; otherwise Some(Ok(d)) with
\* idr_frame_found gives StartOfGop(d); every remaining case (None, or Some(Ok)
\* without IDR) gives NotStartOfGop.
C13_Assembly ==
    Done264 =>
        LET handler == reader.inner.nal_handler
            sps == handler.coding_details_from_sps
        IN  /\ sps.tag = "SomeErr" =>
                 /\ IsFailedToExtract(result)
                 /\ result.arg = sps.error
            /\ sps.tag = "SomeOk" /\ handler.idr_frame_found =>
                 /\ IsStartOfGop(result)
                 /\ result.details = sps.details
            /\ sps.tag = "None" \/ (sps.tag = "SomeOk" /\ ~handler.idr_frame_found) =>
                 /\ result.tag = "Ok"
                 /\ result.gop_detection = "NotStartOfGop"

\* The error was returned although an IDR slice was found and frames counted.
C13_Witness ==
    /\ Done264
    /\ reader.inner.nal_handler.coding_details_from_sps.tag = "SomeErr"
    /\ reader.inner.nal_handler.idr_frame_found
    /\ reader.inner.nal_handler.num_frames_detected >= 2
    /\ IsFailedToExtract(result)

(***************************************************************************)
(* The calls of the handler made so far in the scan, in order.             *)
(***************************************************************************)
HandlerCalls == reader.inner.calls

IsSpsCall(c) == HasType(c.bytes, SeqParameterSet)
IsIdrCall(c) == HasType(c.bytes, SliceLayerWithoutPartitioningIdr)
IsNonIdrCall(c) == HasType(c.bytes, SliceLayerWithoutPartitioningNonIdr)

\* A call that decodes: the handler sees an SPS unit complete.
IsSpsDecode(c) == IsSpsCall(c) /\ c.is_complete

\* The start code that begins the n-th unit of the chunk.
NthStartCode(b, n) ==
    CHOOSE i \in StartCodes(b) : Cardinality({j \in StartCodes(b) : j <= i}) = n

(***************************************************************************)
(* C18.  No decode of a partial SPS.                                       *)
(***************************************************************************)
\* C18: a handler call that sees an SPS unit not yet complete returns Buffer
\* and leaves the handler state unchanged; coding_details_from_sps changes only
\* in a call that sees an SPS unit complete; such a call sees the whole unit as
\* it stands in the chunk, and there is at most one of them per unit.
C18_NoPartialSpsDecode ==
    \A k \in DOMAIN HandlerCalls :
        LET c == HandlerCalls[k] IN
        /\ IsSpsCall(c) /\ ~c.is_complete =>
             c.interest = "Buffer" /\ c.after = c.before
        /\ c.after.coding_details_from_sps # c.before.coding_details_from_sps =>
             IsSpsDecode(c)
        /\ IsSpsDecode(c) =>
             /\ c.bytes = UnitAt(input, NthStartCode(input, c.unit))
             /\ \A j \in 1..(k - 1) :
                   ~(IsSpsDecode(HandlerCalls[j]) /\ HandlerCalls[j].unit = c.unit)

\* An SPS unit that spans two windows was handed over incomplete, buffered,
\* and decoded once complete in the next window.
C18_Witness ==
    \E j, k \in DOMAIN HandlerCalls :
        /\ j < k
        /\ HandlerCalls[j].unit = HandlerCalls[k].unit
        /\ IsSpsCall(HandlerCalls[j]) /\ ~HandlerCalls[j].is_complete
        /\ IsSpsDecode(HandlerCalls[k])
        /\ HandlerCalls[k].after.coding_details_from_sps.tag = "SomeOk"

(***************************************************************************)
(* C19.  Every decode overwrites.                                          *)
(***************************************************************************)
\* What a decode of the unit stores.
StoredFor(unit) ==
    LET r == SpsDecode(Tail(unit)) IN
    IF r.ok THEN SomeOk(r.details) ELSE SomeErr("Failed reading SPS: " \o r.error)

\* The last decode made so far.
LastSpsDecode ==
    HandlerCalls[MaxOf({k \in DOMAIN HandlerCalls : IsSpsDecode(HandlerCalls[k])})]

C20_SliceTransitions ==
    \A k \in DOMAIN HandlerCalls :
        LET c == HandlerCalls[k] IN
        /\ IsIdrCall(c) =>
             /\ c.after = [c.before EXCEPT
                             !.idr_frame_found = TRUE,
                             !.num_frames_detected = c.before.num_frames_detected + 1]
             /\ c.interest = "Ignore"
        /\ IsNonIdrCall(c) =>
             /\ c.after = [c.before EXCEPT
                             !.num_frames_detected = c.before.num_frames_detected + 1]
             /\ c.interest = "Ignore"

\* A non-IDR slice was counted after an IDR slice and a decoded SPS, and an IDR
\* slice was counted before any SPS.
C20_Witness ==
    \E j, k \in DOMAIN HandlerCalls :
        /\ IsIdrCall(HandlerCalls[j])
        /\ ~HandlerCalls[j].before.idr_frame_found
        /\ HandlerCalls[j].before.coding_details_from_sps.tag = "None"
        /\ IsNonIdrCall(HandlerCalls[k])
        /\ HandlerCalls[k].before.idr_frame_found
        /\ HandlerCalls[k].before.coding_details_from_sps.tag = "SomeOk"
        /\ HandlerCalls[k].after.num_frames_detected = 2

(***************************************************************************)
(* C14.  No state across calls.                                            *)
(***************************************************************************)
\* C14: a call with the bytes and codec of the first call returns the result
\* the first call returned, whatever calls were made in between; and every
\* scan starts from a reader around the default accumulator (no SPS result,
\* idr_frame_found false, num_frames_detected 0).
C14_NoStateAcrossCalls ==
    /\ pc = "done" /\ history.some /\ input = history.input /\ codec = history.codec
         => result = history.result
    /\ pc = "loop" /\ num_pushes = 0
         => reader = AnnexBReader_accumulate(H264InspectionState_default)

\* The first call, an H.264 call that returned StartOfGop, was repeated after a
\* call with other arguments had returned, and returned StartOfGop again.
C14_Witness ==
    /\ pc = "done"
    /\ history.some /\ history.between
    /\ input = history.input /\ codec = history.codec
    /\ IsStartOfGop(history.result)
    /\ result = history.result

(***************************************************************************)
(* C15.  Two threads.                                                      *)
(***************************************************************************)
\* C15: under every interleaving of the steps of the two threads, each call
\* returns the result that inspect_video_chunk gives for its arguments when
\* run alone.
C15_NoInterference ==
    /\ pc = "done" => result = inspect_video_chunk(input, codec)
    /\ other.pc = "done" => other.result = inspect_video_chunk(other.input, other.codec)

\* Both H.264 calls have returned, with different results, the second thread
\* having taken steps while the first was inside its scan.
C15_Witness ==
    /\ pc = "done" /\ codec = "H264"
    /\ other.pc = "done" /\ other.codec = "H264"
    /\ other.concurrent
    /\ num_pushes >= 2
    /\ IsStartOfGop(result)
    /\ IsFailedToExtract(other.result)

(***************************************************************************)
(* C16.  Inactive phases collect nothing.                                  *)
(***************************************************************************)
\* C16: after any sequence of add_draw_data, add_drawables and add_drawable
\* calls the drawable list of every phase that is not active is empty; and
\* each call appends the drawables given, in their order and under the index
\* of the draw data being added, to the lists of exactly the requested phases
\* that are active, leaving every other list as it was.
C16_InactivePhasesIgnored ==
    /\ \A p \in DrawPhase \ manager.active_phases : manager.drawables[p] = <<>>
    /\ collector.last_add.some =>
         LET add == collector.last_add IN
         \A p \in DrawPhase :
             manager.drawables[p] =
                 IF p \in add.phases /\ p \in manager.active_phases
                 THEN add.before[p] \o
                        [i \in 1..Len(add.drawables) |->
                           [info |-> add.drawables[i], draw_data_key |-> add.draw_data_index]]
                 ELSE add.before[p]

\* Two drawables were added for phases of which some are active and some are
\* not, behind a drawable that an active phase already held.
C16_Witness ==
    /\ collector.last_add.some
    /\ Len(collector.last_add.drawables) = 2
    /\ collector.last_add.phases \cap manager.active_phases # {}
    /\ collector.last_add.phases \ manager.active_phases # {}
    /\ \E p \in collector.last_add.phases \cap manager.active_phases :
          Len(manager.drawables[p]) = 3

(***************************************************************************)
(* C17.  The instance ranges of a batch.                                   *)
(***************************************************************************)
\* The instances the staging buffer holds at the indices lo .. hi - 1.
StagedIn(lo, hi) == {mesh.instance_buffer_staging[i + 1] : i \in lo..(hi - 1)}

\* start <= end_with_outlines <= end; the instances in [start,
\* end_with_outlines) have outlines and those in [end_with_outlines, end) have
\* none; and all of them are instances of the batch's mesh.
RangesOf(batch) ==
    /\ batch.instance_start_index <= batch.instance_end_index_with_outlines
    /\ batch.instance_end_index_with_outlines <= batch.instance_end_index
    /\ batch.instance_end_index <= Len(mesh.instance_buffer_staging)
    /\ \A i \in StagedIn(batch.instance_start_index, batch.instance_end_index_with_outlines) :
          is_some(i) /\ i.gpu_mesh = batch.mesh
    /\ \A i \in StagedIn(batch.instance_end_index_with_outlines, batch.instance_end_index) :
          is_none(i) /\ i.gpu_mesh = batch.mesh

IsOtherCall(c) ==
    \/ ~HeaderOk(c.bytes[1])
    \/ UnitTypeId(c.bytes[1]) \notin
         {SeqParameterSet, SliceLayerWithoutPartitioningIdr,
          SliceLayerWithoutPartitioningNonIdr}

\* C21: a handler call on a unit of any type other than SPS, IDR slice and
\* non-IDR slice, or on a unit whose header fails to parse, leaves
\* coding_details_from_sps, idr_frame_found and num_frames_detected as they
\* were, stores no error, and returns Ignore.
C21_OtherUnitsIgnored ==
    \A k \in DOMAIN HandlerCalls :
        LET c == HandlerCalls[k] IN
        IsOtherCall(c) => c.after = c.before /\ c.interest = "Ignore"

\* A unit with a bad header and a unit of another type were both handed to a
\* handler that had already stored a decoded SPS.
C21_Witness ==
    \E j, k \in DOMAIN HandlerCalls :
        /\ ~HeaderOk(HandlerCalls[j].bytes[1])
        /\ HandlerCalls[j].before.coding_details_from_sps.tag = "SomeOk"
        /\ HeaderOk(HandlerCalls[k].bytes[1]) /\ IsOtherCall(HandlerCalls[k])
        /\ HandlerCalls[k].before.coding_details_from_sps.tag = "SomeOk"

(***************************************************************************)
(* C22.  The frame count never goes down.                                  *)
(***************************************************************************)
\* The handler changes in the calls of nal only: each call starts from the
\* state the previous one left, the first from the default state, and the
\* handler of the reader is the state the last call left.
CallsAreChained ==
    /\ \A k \in DOMAIN HandlerCalls :
          HandlerCalls[k].before =
              IF k = 1 THEN H264InspectionState_default ELSE HandlerCalls[k - 1].after
    /\ reader.inner.nal_handler =
          IF HandlerCalls = <<>> THEN H264InspectionState_default
          ELSE HandlerCalls[Len(HandlerCalls)].after

\* C22: during a scan num_frames_detected starts at 0 and no handler call
\* lowers it.
C22_FrameCountMonotone ==
    /\ CallsAreChained
    /\ \A k \in DOMAIN HandlerCalls :
          HandlerCalls[k].after.num_frames_detected
              >= HandlerCalls[k].before.num_frames_detected

\* An IDR slice was handed over when two frames had been counted, and three
\* were counted after it.
C22_Witness ==
    \E k \in DOMAIN HandlerCalls :
        /\ IsIdrCall(HandlerCalls[k])
        /\ HandlerCalls[k].before.num_frames_detected = 2
        /\ reader.inner.nal_handler.num_frames_detected = 3

(***************************************************************************)
(* C25.  One count per slice unit.                                         *)
(***************************************************************************)
IsSliceCall(c) == IsIdrCall(c) \/ IsNonIdrCall(c)

\* C25: each slice unit is counted exactly once however many windows or
\* fragments it spans: the call that sees a slice unit adds 1 to
\* num_frames_detected and returns Ignore, no other call sees that unit, and
\* when the scan is over the handler has counted the slice units of the chunk.
C25_SliceCountedOnce ==
    /\ \A k \in DOMAIN HandlerCalls :
          LET c == HandlerCalls[k] IN
          IsSliceCall(c) =>
              /\ c.interest = "Ignore"
              /\ c.after.num_frames_detected = c.before.num_frames_detected + 1
              /\ \A j \in DOMAIN HandlerCalls : j # k => HandlerCalls[j].unit # c.unit
    /\ Done264 => reader.inner.nal_handler.num_frames_detected = NumSliceUnits(input)

\* A scan of two windows is over; the handler saw only the first byte of a
\* slice unit that goes on in the second window, and counted one frame.
C25_Witness ==
    /\ Done264
    /\ num_pushes = 2
    /\ reader.inner.nal_handler.num_frames_detected = 1
    /\ \E k \in DOMAIN HandlerCalls :
          LET c == HandlerCalls[k] IN
          /\ IsSliceCall(c)
          /\ ~c.is_complete
          /\ Len(c.bytes) < Len(UnitAt(input, NthStartCode(input, c.unit)))

(***************************************************************************)
(* C27.  idr_frame_found latches.                                          *)
(***************************************************************************)
\* C27: within a scan idr_frame_found starts false, and once it is true no
\* later call (SPS, non-IDR slice, other type, bad header, further IDR slice)
\* makes it false again; it becomes true in calls that see an IDR slice only.
C27_IdrFoundLatches ==
    /\ CallsAreChained
    /\ ~H264InspectionState_default.idr_frame_found
    /\ \A k \in DOMAIN HandlerCalls :
          LET c == HandlerCalls[k] IN
          /\ c.before.idr_frame_found => c.after.idr_frame_found
          /\ c.after.idr_frame_found /\ ~c.before.idr_frame_found => IsIdrCall(c)

\* After the IDR slice that set idr_frame_found there were two more calls, one
\* of them on a further IDR slice, and idr_frame_found is still true.
C27_Witness ==
    /\ reader.inner.nal_handler.idr_frame_found
    /\ \E i, j, k \in DOMAIN HandlerCalls :
          /\ i < j /\ j # k /\ i < k
          /\ IsIdrCall(HandlerCalls[i])
          /\ IsIdrCall(HandlerCalls[j])
          /\ ~IsIdrCall(HandlerCalls[k])

(***************************************************************************)
(* C28.  The empty chunk.                                                  *)
(***************************************************************************)
\* C28: for an empty H.264 chunk nothing is pushed, the handler is never
\* called, and the inspection returns Ok with NotStartOfGop and
\* num_frames_detected = Some(0).
C28_EmptyChunk ==
    codec = "H264" /\ input = <<>> =>
        /\ num_pushes = 0
        /\ HandlerCalls = <<>>
        /\ pc = "done" => result = OkInspection("NotStartOfGop", NoDetails, SomeFrames(0))

\* The inspection of the empty H.264 chunk has returned.
C28_Witness == Done264 /\ input = <<>> /\ result.tag = "Ok"

(***************************************************************************)
(* C26.  The windows.                                                      *)
(***************************************************************************)
\* The windows pushed so far, as index ranges of the chunk, and their bytes.
Windows == reader.pushes

WindowBytes(w) == SubSeq(input, w.first, w.last)

WindowLen(w) == w.last - w.first + 1

\* C26: every window pushed is non-empty and at most MAX_CHUNK_SIZE bytes long,
\* only the last window of the scan may be shorter than MAX_CHUNK_SIZE, and the
\* windows in push order, concatenated, are the part of the chunk consumed so
\* far, which is the whole chunk when the scan is over.
C26_Windows ==
    codec = "H264" =>
        /\ Len(Windows) = num_pushes
        /\ \A k \in DOMAIN Windows :
              /\ WindowLen(Windows[k]) >= 1
              /\ WindowLen(Windows[k]) <= MAX_CHUNK_SIZE
              /\ WindowLen(Windows[k]) < MAX_CHUNK_SIZE =>
                    k = Len(Windows) /\ Windows[k].last = Len(input)
        /\ Flatten([k \in DOMAIN Windows |-> WindowBytes(Windows[k])])
              = SubSeq(input, 1, sample_data - 1)
        /\ \A k \in DOMAIN Windows :
              Windows[k].first = IF k = 1 THEN 1 ELSE Windows[k - 1].last + 1
        /\ pc = "done" => sample_data = Len(input) + 1

\* The scan of a chunk is over after a full window and a shorter last one.
C26_Witness ==
    /\ Done264
    /\ Len(Windows) = 2
    /\ WindowLen(Windows[1]) = MAX_CHUNK_SIZE
    /\ WindowLen(Windows[2]) \in 2..(MAX_CHUNK_SIZE - 1)

(***************************************************************************)
(* C23.  The feeding loop terminates.                                      *)
(***************************************************************************)
\* Windows that hold the byte at index i of the chunk.
WindowsWith(i) == {k \in DOMAIN Windows : Windows[k].first <= i /\ i <= Windows[k].last}

\* After any number of iterations: no more of them than windows fit the chunk,
\* and each byte before the remaining input was pushed once, the others not yet.
FeederSafe ==
    codec = "H264" =>
        /\ num_pushes <= NumWindows(Len(input), MAX_CHUNK_SIZE)
        /\ sample_data \in 1..(Len(input) + 1)
        /\ \A i \in 1..Len(input) :
              Cardinality(WindowsWith(i)) = IF i < sample_data THEN 1 ELSE 0

\* An iteration pushes at least one byte and removes what it pushed from the
\* remaining input.
FeederStep ==
    num_pushes' # num_pushes =>
        /\ num_pushes' = num_pushes + 1
        /\ sample_data' > sample_data
        /\ reader'.pushes =
              Append(reader.pushes, [first |-> sample_data, last |-> sample_data' - 1])

\* C23: the feeding loop terminates for every finite chunk and consumes all of
\* it: each iteration pushes at least one byte and removes it from the
\* remaining input, there are never more than ceil(len / MAX_CHUNK_SIZE)
\* iterations, and the scan reaches its end with the remaining input empty
\* and every byte of the chunk pushed exactly once.
C23_FeederTerminates ==
    /\ []FeederSafe
    /\ [][FeederStep]_vars
    /\ (codec = "H264") ~> (Done264 /\ sample_data = Len(input) + 1 /\ FeederSafe)

\* The scan of a chunk of more than two windows is over after three iterations.
C23_Witness ==
    /\ Done264
    /\ num_pushes = 3
    /\ Len(input) > 2 * MAX_CHUNK_SIZE

(***************************************************************************)
(* C24.  No flush at the end of the scan.                                  *)
(***************************************************************************)
\* The last unit of the chunk: its start code and its number.
LastUnit(b) == MaxOf(StartCodes(b))

NumUnits(b) == Cardinality(StartCodes(b))

\* The calls of the handler made for the last unit of the chunk.
LastUnitCalls ==
    {k \in DOMAIN HandlerCalls : HandlerCalls[k].unit = NumUnits(input)}

\* What holds of a last unit that is never reported complete: an SPS leaves
\* the handler as it was, a slice is counted by the one call made for it.
LastUnitIncomplete ==
    /\ \A k \in LastUnitCalls : ~HandlerCalls[k].is_complete
    /\ HasType(UnitAt(input, LastUnit(input)), SeqParameterSet) =>
          \A k \in LastUnitCalls :
              /\ HandlerCalls[k].after = HandlerCalls[k].before
              /\ HandlerCalls[k].interest = "Buffer"
    /\ \/ HasType(UnitAt(input, LastUnit(input)), SliceLayerWithoutPartitioningIdr)
       \/ HasType(UnitAt(input, LastUnit(input)), SliceLayerWithoutPartitioningNonIdr)
       => \E k \in LastUnitCalls :
              /\ LastUnitCalls = {k}
              /\ HandlerCalls[k].after.num_frames_detected
                    = HandlerCalls[k].before.num_frames_detected + 1

\* C24 (as stated): the scan ends without a flush, so the unit that follows
\* the last start code of the chunk is never reported complete; an SPS there
\* is left undecoded, a slice there is still counted.
C24_AsStated ==
    Done264 /\ StartCodes(input) # {} => LastUnitIncomplete

\* C24 (amended): the scan ends without a flush: the result is assembled from
\* the handler as the last push left it, and a unit is reported complete only
\* if the bytes that end it (a further start code or three zero bytes) follow
\* it in the chunk.  So the last unit of the chunk, when nothing that ends it
\* follows, is never reported complete: an SPS there is left undecoded and
\* changes nothing in coding_details_from_sps, a slice there is still counted.
C24_NoFlush ==
    Done264 =>
        /\ result = AssembleResult(reader.inner.nal_handler)
        /\ CallsAreChained
        /\ \A k \in DOMAIN HandlerCalls :
              HandlerCalls[k].is_complete =>
                  Terminated(input, NthStartCode(input, HandlerCalls[k].unit))
        /\ StartCodes(input) # {} /\ ~Terminated(input, LastUnit(input))
              => LastUnitIncomplete

\* The scan is over of a chunk that ends with a decodable SPS which nothing
\* ends, after an IDR slice: the SPS was handed over, incomplete, nothing is
\* stored for it, and the result is NotStartOfGop with the slice counted.
C24_Witness ==
    /\ Done264
    /\ IdrUnits(input) # {}
    /\ LastUnit(input) \in SpsUnits(input)
    /\ ~Terminated(input, LastUnit(input))
    /\ Decodes(input, LastUnit(input))
    /\ LastUnitCalls # {}
    /\ reader.inner.nal_handler.coding_details_from_sps = NoneSps
    /\ result = OkInspection("NotStartOfGop", NoDetails, SomeFrames(1))

(***************************************************************************)
(* C29.  The draw data key of a drawable.                                  *)
(***************************************************************************)
\* The index in draw_data at which the draw data of the given serial is, or,
\* for the one whose drawables are being collected, is about to be pushed.
\* (Len(draw_data) + 1 when there is no such draw data.)
IndexOfDrawData(serial) ==
    LET at == {i \in DOMAIN manager.draw_data : manager.draw_data[i].serial = serial} IN
    IF at # {} THEN (CHOOSE i \in at : TRUE) - 1
    ELSE IF collector.pc = "collecting" /\ collector.draw_data.serial = serial
    THEN Len(manager.draw_data)
    ELSE Len(manager.draw_data) + 1

\* C29: every Drawable collected during add_draw_data carries as draw_data_key
\* the index at which that draw data is then pushed into draw_data; so between
\* the calls of add_draw_data every stored Drawable's draw_data_key is below
\* draw_data.len() and is the index of the draw data that produced it.
C29_DrawDataKey ==
    \A p \in DrawPhase :
        /\ Len(collector.origins[p]) = Len(manager.drawables[p])
        /\ \A i \in DOMAIN manager.drawables[p] :
              LET key == manager.drawables[p][i].draw_data_key IN
              /\ key = IndexOfDrawData(collector.origins[p][i])
              /\ collector.pc = "none" =>
                    /\ key < Len(manager.draw_data)
                    /\ manager.draw_data[key + 1].serial = collector.origins[p][i]

\* Two calls of add_draw_data have returned, and one phase holds drawables of
\* both draw data.
C29_Witness ==
    /\ collector.pc = "none"
    /\ Len(manager.draw_data) = 2
    /\ \E p \in DrawPhase :
          {manager.drawables[p][i].draw_data_key : i \in DOMAIN manager.drawables[p]} = {0, 1}

(***************************************************************************)
(* C30.  The batches cover the instances, and what is drawn is not empty.  *)
(***************************************************************************)
MeshBuilt == mesh.pc \in {"done", "added", "drawn"}

=============================================================================
